---- MODULE Spec2Model ----
(***************************************************************************)
(* Model of the load balancer simulation: Request, RequestQueue,          *)
(* WebServer and LoadBalancer.  Indices into `servers` are 0-based as in  *)
(* the C++ code (element i of the vector is servers[i + 1] here).         *)
(* Utilizations are kept as exact fractions; loadThreshold is held in     *)
(* hundredths (80 stands for 0.8).                                        *)
(***************************************************************************)
EXTENDS Integers, Sequences, FiniteSets, TLC

\* ---------------------------------------------------------------- bounds
MaxRequests == 3        \* requests generated by the Variety driver
BurstRequests == 6      \* requests generated by the Burst driver
MaxDuration == 3        \* processing times are 1 or MaxDuration
MaxPool == 5            \* largest maxServers a configuration uses
SmallMaxSize == 2       \* queue capacity of the RequestQueue(int) configurations
BacklogRequests == 13   \* requests generated by the Backlog driver
WorkerCapacity == 2     \* capacity of the WebServers used on their own
WorkerRequests == 4     \* requests offered to the WebServers used on their own
MaxInitial == 3         \* largest initialServers given to the constructor
MaxDeficit == 1         \* the constructor's maxServers goes down to -MaxDeficit
QueueRequests == 4      \* requests offered to the RequestQueue used on its own
FloodExcess == 1        \* requests the Flood driver generates beyond DefaultMaxSize

\* ------------------------------------------------------ program constants
DefaultMaxSize == 1000  \* RequestQueue() default capacity
ServerCapacity == 5     \* capacity addServer gives every WebServer
QueueBacklog == 10      \* checkLoadBalancing: queueSize > 10
DefaultPriority == 5    \* Request() default priority
DefaultProcessingTime == 10 \* Request() default processing time
LowestPriority == 1     \* generateRandomRequest: priorities from 1
HighestPriority == 10   \* generateRandomRequest: priorities up to 10
LongestProcessingTime == 50 \* generateRandomRequest: processing times up to 50
QueuePerServer == 100   \* main: queueSize = numServers * 100

IPs == {"a", "b"}
DefaultIP == "0.0.0.0"
Durations == {1, MaxDuration}

VARIABLES
    servers,                \* LoadBalancer::servers
    nextServerIndex,        \* LoadBalancer::nextServerIndex
    totalRequestsProcessed, \* LoadBalancer::totalRequestsProcessed
    totalProcessingTime,    \* LoadBalancer::totalProcessingTime
    maxServers,             \* LoadBalancer::maxServers
    minServers,             \* LoadBalancer::minServers
    loadThreshold,          \* LoadBalancer::loadThreshold, in hundredths
    requestQueue,           \* RequestQueue::requestQueue
    maxSize,                \* RequestQueue::maxSize
    totalRequestsAdded,     \* RequestQueue::totalRequestsAdded
    totalRequestsRemoved,   \* RequestQueue::totalRequestsRemoved
    blockedIPs,             \* RequestQueue::blockedIPs
    nextRequestID,          \* the driver's request id counter
    driver,                 \* the driver's profile: addresses, durations, number of requests
    initialServers,         \* constructor argument initialServers
    accepted,               \* history: number of addRequest calls that returned true
    discarded,              \* history: requests held by servers when they were removed
    orig,                   \* history: id -> processing time at submission (0 once gone)
    age,                    \* history: id -> cycles elapsed since placement on a server
    lastDone,               \* history: items that left a server in the last cycle's processing
    placements,             \* history: placements of the last distribution pass
    last,                   \* history: the last operation and its return value
    blockedSet,             \* history: addresses blocked and not unblocked since
    scenario,               \* history: returns of the cycles that followed a lone submit
    resized                 \* history: pool size change (-1, 0, 1) of the last cycle,
                            \* kept by submissions, 0 after any other operation

vars == <<servers, nextServerIndex, totalRequestsProcessed, totalProcessingTime,
          maxServers, minServers, loadThreshold, requestQueue, maxSize,
          totalRequestsAdded, totalRequestsRemoved, blockedIPs, nextRequestID,
          driver, initialServers, accepted, discarded, orig, age, lastDone, placements,
          last, blockedSet, scenario, resized>>

\* the process is alive: no call has killed it
Running == last.op # "crash"

\* the ids the driver gives its requests
IDs == 1..driver.budget

\* the ids of the drivers that generate up to BacklogRequests requests
SmallIDs == 1..(IF BacklogRequests > BurstRequests /\ BacklogRequests > MaxRequests
                THEN BacklogRequests
                ELSE IF MaxRequests > BurstRequests THEN MaxRequests
                     ELSE BurstRequests)

\* ------------------------------------------------------------- Request
Request(ip, prio, procTime, id) ==
    [clientIP |-> ip, priority |-> prio, processingTime |-> procTime, requestID |-> id]

DefaultRequest == Request(DefaultIP, DefaultPriority, DefaultProcessingTime, 0)

\* mutant: the decremented time is not stored
setProcessingTime_notStored(r, time) == r

setProcessingTime(r, time) == [r EXCEPT !.processingTime = time]

\* ------------------------------------------------------------- WebServer
WebServer(id, capacity) ==
    [serverID |-> id, maxCapacity |-> capacity, currentLoad |-> 0, isActive |-> TRUE,
     totalRequestsProcessed |-> 0, totalProcessingTime |-> 0, requestQueue |-> <<>>]

\* mutant: the comparison with the capacity is turned round
canAcceptRequest_flipped(s) == s.isActive /\ s.currentLoad > s.maxCapacity

\* mutant: the load is not compared with the capacity
canAcceptRequest_ignoresLoad(s) == s.isActive

canAcceptRequest(s) == s.isActive /\ s.currentLoad < s.maxCapacity

\* WebServer::setIsActive
setIsActive(s, active) == [s EXCEPT !.isActive = active]

\* mutant: an inactive server takes requests
WebServer_addRequest_whenInactive(s, r) ==
    IF s.currentLoad >= s.maxCapacity
    THEN <<FALSE, s>>
    ELSE <<TRUE, [s EXCEPT !.requestQueue = Append(@, r), !.currentLoad = @ + 1]>>

\* WebServer::addRequest: <<returned value, server afterwards>>
WebServer_addRequest(s, r) ==
    IF ~s.isActive \/ s.currentLoad >= s.maxCapacity
    THEN <<FALSE, s>>
    ELSE <<TRUE, [s EXCEPT !.requestQueue = Append(@, r), !.currentLoad = @ + 1]>>

\* mutant: a request completes one cycle early
RECURSIVE ProcessLoop_early(_, _)
ProcessLoop_early(q, acc) ==
    IF q = <<>> THEN acc
    ELSE LET currentRequest == Head(q)
             remainingTime == currentRequest.processingTime - 1
         IN IF remainingTime <= 1
            THEN ProcessLoop_early(Tail(q),
                    [acc EXCEPT !.completedRequests = @ + 1,
                                !.totalRequestsProcessed = @ + 1,
                                !.totalProcessingTime = @ + currentRequest.processingTime,
                                !.currentLoad = @ - 1])
            ELSE ProcessLoop_early(Tail(q),
                    [acc EXCEPT !.tempQueue =
                        Append(@, setProcessingTime(currentRequest, remainingTime))])

\* mutant: the unfinished requests are put back in reverse order
RECURSIVE ProcessLoop_reversed(_, _)
ProcessLoop_reversed(q, acc) ==
    IF q = <<>> THEN acc
    ELSE LET currentRequest == Head(q)
             remainingTime == currentRequest.processingTime - 1
         IN IF remainingTime <= 0
            THEN ProcessLoop_reversed(Tail(q),
                    [acc EXCEPT !.completedRequests = @ + 1,
                                !.totalRequestsProcessed = @ + 1,
                                !.totalProcessingTime = @ + currentRequest.processingTime,
                                !.currentLoad = @ - 1])
            ELSE ProcessLoop_reversed(Tail(q),
                    [acc EXCEPT !.tempQueue =
                        <<setProcessingTime(currentRequest, remainingTime)>> \o @])

\* The while loop of WebServer::processCycle: `q` is what is left of
\* requestQueue, `acc` carries the server fields and tempQueue.
RECURSIVE ProcessLoop(_, _)
ProcessLoop(q, acc) ==
    IF q = <<>> THEN acc
    ELSE LET currentRequest == Head(q)
             remainingTime == currentRequest.processingTime - 1
         IN IF remainingTime <= 0
            THEN ProcessLoop(Tail(q),
                    [acc EXCEPT !.completedRequests = @ + 1,
                                !.totalRequestsProcessed = @ + 1,
                                !.totalProcessingTime = @ + currentRequest.processingTime,
                                !.currentLoad = @ - 1])
            ELSE ProcessLoop(Tail(q),
                    [acc EXCEPT !.tempQueue =
                        Append(@, setProcessingTime(currentRequest, remainingTime))])

\* mutant: completions are counted but currentLoad keeps its old value
WebServer_processCycle_loadKept(s) ==
    IF ~s.isActive \/ s.requestQueue = <<>>
    THEN <<0, s>>
    ELSE LET r == ProcessLoop(s.requestQueue,
                     [completedRequests |-> 0, tempQueue |-> <<>>,
                      totalRequestsProcessed |-> s.totalRequestsProcessed,
                      totalProcessingTime |-> s.totalProcessingTime,
                      currentLoad |-> s.currentLoad])
         IN <<r.completedRequests,
              [s EXCEPT !.requestQueue = r.tempQueue,
                        !.totalRequestsProcessed = r.totalRequestsProcessed,
                        !.totalProcessingTime = r.totalProcessingTime]>>

\* mutant: an inactive server goes on processing
WebServer_processCycle_whenInactive(s) ==
    IF s.requestQueue = <<>>
    THEN <<0, s>>
    ELSE LET r == ProcessLoop(s.requestQueue,
                     [completedRequests |-> 0, tempQueue |-> <<>>,
                      totalRequestsProcessed |-> s.totalRequestsProcessed,
                      totalProcessingTime |-> s.totalProcessingTime,
                      currentLoad |-> s.currentLoad])
         IN <<r.completedRequests,
              [s EXCEPT !.requestQueue = r.tempQueue,
                        !.totalRequestsProcessed = r.totalRequestsProcessed,
                        !.totalProcessingTime = r.totalProcessingTime,
                        !.currentLoad = r.currentLoad]>>

\* WebServer::processCycle: <<returned value, server afterwards>>
WebServer_processCycle(s) ==
    IF ~s.isActive \/ s.requestQueue = <<>>
    THEN <<0, s>>
    ELSE LET r == ProcessLoop(s.requestQueue,
                     [completedRequests |-> 0, tempQueue |-> <<>>,
                      totalRequestsProcessed |-> s.totalRequestsProcessed,
                      totalProcessingTime |-> s.totalProcessingTime,
                      currentLoad |-> s.currentLoad])
         IN <<r.completedRequests,
              [s EXCEPT !.requestQueue = r.tempQueue,
                        !.totalRequestsProcessed = r.totalRequestsProcessed,
                        !.totalProcessingTime = r.totalProcessingTime,
                        !.currentLoad = r.currentLoad]>>

\* ---------------------------------------------------------- RequestQueue
\* mutant: only the first blocked address is compared
isIPBlocked_firstOnly(blocked, ip) == blocked # <<>> /\ blocked[1] = ip

isIPBlocked(blocked, ip) == \E i \in 1..Len(blocked) : blocked[i] = ip

getSize(q) == Len(q)

isEmpty(q) == q = <<>>

\* mutant: off by one
isFull_offByOne(q, max) == getSize(q) > max

isFull(q, max) == getSize(q) >= max

\* mutant: a request refused by a full queue is counted as added
RequestQueue_addRequest_countsRefused(rq, r) ==
    IF isIPBlocked(rq.blockedIPs, r.clientIP) THEN <<FALSE, rq>>
    ELSE IF isFull(rq.requestQueue, rq.maxSize)
         THEN <<FALSE, [rq EXCEPT !.totalRequestsAdded = @ + 1]>>
    ELSE <<TRUE, [rq EXCEPT !.requestQueue = Append(@, r),
                            !.totalRequestsAdded = @ + 1]>>

\* RequestQueue::addRequest on a queue record: <<returned value, queue afterwards>>
RequestQueue_addRequest(rq, r) ==
    IF isIPBlocked(rq.blockedIPs, r.clientIP) THEN <<FALSE, rq>>
    ELSE IF isFull(rq.requestQueue, rq.maxSize) THEN <<FALSE, rq>>
    ELSE <<TRUE, [rq EXCEPT !.requestQueue = Append(@, r),
                            !.totalRequestsAdded = @ + 1]>>

\* mutant: the front request is returned but not popped
getNextRequest_notPopped(rq) ==
    IF isEmpty(rq.requestQueue) THEN <<DefaultRequest, rq>>
    ELSE <<Head(rq.requestQueue), [rq EXCEPT !.totalRequestsRemoved = @ + 1]>>

\* mutant: the request added last is taken
\* mutant: the request of the highest priority is served, the earliest first
getNextRequest_byPriority(rq) ==
    IF isEmpty(rq.requestQueue) THEN <<DefaultRequest, rq>>
    ELSE LET q == rq.requestQueue
             k == CHOOSE i \in 1..Len(q) :
                     \A j \in 1..Len(q) :
                        \/ q[i].priority > q[j].priority
                        \/ q[i].priority = q[j].priority /\ i <= j
         IN <<q[k], [rq EXCEPT !.requestQueue = SubSeq(q, 1, k - 1)
                                                  \o SubSeq(q, k + 1, Len(q)),
                               !.totalRequestsRemoved = @ + 1]>>

\* mutant: the head is removed without being counted
getNextRequest_uncounted(rq) ==
    IF isEmpty(rq.requestQueue) THEN <<DefaultRequest, rq>>
    ELSE <<Head(rq.requestQueue), [rq EXCEPT !.requestQueue = Tail(@)]>>

getNextRequest_last(rq) ==
    IF isEmpty(rq.requestQueue) THEN <<DefaultRequest, rq>>
    ELSE <<rq.requestQueue[Len(rq.requestQueue)],
           [rq EXCEPT !.requestQueue = SubSeq(@, 1, Len(@) - 1),
                      !.totalRequestsRemoved = @ + 1]>>

\* RequestQueue::getNextRequest: <<returned request, queue afterwards>>
getNextRequest(rq) ==
    IF isEmpty(rq.requestQueue) THEN <<DefaultRequest, rq>>
    ELSE <<Head(rq.requestQueue),
           [rq EXCEPT !.requestQueue = Tail(@), !.totalRequestsRemoved = @ + 1]>>

\* std::find / erase of the first occurrence
RECURSIVE EraseFirst(_, _)
EraseFirst(blocked, ip) ==
    IF blocked = <<>> THEN <<>>
    ELSE IF Head(blocked) = ip THEN Tail(blocked)
    ELSE <<Head(blocked)>> \o EraseFirst(Tail(blocked), ip)

\* mutant: the address is appended also when it is already there
RequestQueue_blockIP_again(blocked, ip) == Append(blocked, ip)

RequestQueue_blockIP(blocked, ip) ==
    IF ~isIPBlocked(blocked, ip) THEN Append(blocked, ip) ELSE blocked

RequestQueue_unblockIP(blocked, ip) ==
    IF isIPBlocked(blocked, ip) THEN EraseFirst(blocked, ip) ELSE blocked

\* the RequestQueue member of the LoadBalancer as one record
TheQueue ==
    [requestQueue |-> requestQueue, maxSize |-> maxSize,
     totalRequestsAdded |-> totalRequestsAdded,
     totalRequestsRemoved |-> totalRequestsRemoved, blockedIPs |-> blockedIPs]

\* ---------------------------------------------------------- LoadBalancer
\* mutant: the new server gets the id of the last one
addServer_sameId(svs, max) ==
    IF Len(svs) >= max THEN <<FALSE, svs>>
    ELSE <<TRUE, Append(svs, WebServer(Len(svs), ServerCapacity))>>

\* LoadBalancer::addServer: <<returned value, servers afterwards>>
addServer(svs, max) ==
    IF Len(svs) >= max THEN <<FALSE, svs>>
    ELSE <<TRUE, Append(svs, WebServer(Len(svs) + 1, ServerCapacity))>>

\* mutant: off by one in the minimum guard
removeServer_belowMin(svs, min) ==
    IF Len(svs) < min THEN <<FALSE, svs, FALSE>>
    ELSE IF svs = <<>> THEN <<FALSE, svs, TRUE>>
    ELSE <<TRUE, SubSeq(svs, 1, Len(svs) - 1), FALSE>>

\* mutant: the first server is erased instead of the last
removeServer_first(svs, min) ==
    IF Len(svs) <= min THEN <<FALSE, svs, FALSE>>
    ELSE IF svs = <<>> THEN <<FALSE, svs, TRUE>>
    ELSE <<TRUE, Tail(svs), FALSE>>

\* LoadBalancer::removeServer: <<returned value, servers afterwards, the call
\* did not return>>.  With a negative minServers the test size <= minServers
\* lets an empty pool through to servers.pop_back(), which is undefined on an
\* empty vector: the destructor of a WebServer that does not exist runs, and
\* the process is killed by SIGSEGV in every build tried (-O0 and -O2, pools
\* that never held a server and pools emptied by earlier calls).
removeServer(svs, min) ==
    IF Len(svs) <= min THEN <<FALSE, svs, FALSE>>
    ELSE IF svs = <<>> THEN <<FALSE, svs, TRUE>>
    ELSE <<TRUE, SubSeq(svs, 1, Len(svs) - 1), FALSE>>

\* mutant: the loop runs once more (i <= initialServers)
RECURSIVE AddServers_oneMore(_, _, _)
AddServers_oneMore(svs, n, max) ==
    IF n < 0 THEN svs ELSE AddServers_oneMore(addServer(svs, max)[2], n - 1, max)

\* the constructor's loop: `n` calls of addServer
RECURSIVE AddServers(_, _, _)
AddServers(svs, n, max) ==
    IF n <= 0 THEN svs ELSE AddServers(addServer(svs, max)[2], n - 1, max)

\* mutant: nextServerIndex is not advanced after a placement
RECURSIVE ScanServers_noAdvance(_, _, _)
ScanServers_noAdvance(st, serverIndex, i) ==
    IF i >= Len(st.servers) THEN st
    ELSE LET currentIndex == (serverIndex + i) % Len(st.servers)
             s == st.servers[currentIndex + 1]
         IN IF canAcceptRequest(s)
            THEN LET got == getNextRequest(st.rq)
                     added == WebServer_addRequest(s, got[1])
                     rec == [index |-> currentIndex, wasActive |-> s.isActive,
                             loadBefore |-> s.currentLoad, capacity |-> s.maxCapacity,
                             requestID |-> got[1].requestID, accepted |-> added[1]]
                     st1 == [st EXCEPT !.rq = got[2],
                                       !.servers[currentIndex + 1] = added[2],
                                       !.placements = Append(@, rec)]
                 IN IF added[1]
                    THEN [st1 EXCEPT !.requestAssigned = TRUE]
                    ELSE ScanServers_noAdvance(st1, serverIndex, i + 1)
            ELSE ScanServers_noAdvance(st, serverIndex, i + 1)

\* The for loop of distributeRequests from iteration i on.  `st` holds the
\* servers, the queue record, nextServerIndex, requestAssigned and the
\* history of placements made so far.
RECURSIVE ScanServers(_, _, _)
ScanServers(st, serverIndex, i) ==
    IF i >= Len(st.servers) THEN st
    ELSE LET currentIndex == (serverIndex + i) % Len(st.servers)
             s == st.servers[currentIndex + 1]
         IN IF canAcceptRequest(s)
            THEN LET got == getNextRequest(st.rq)
                     added == WebServer_addRequest(s, got[1])
                     rec == [index |-> currentIndex, wasActive |-> s.isActive,
                             loadBefore |-> s.currentLoad, capacity |-> s.maxCapacity,
                             requestID |-> got[1].requestID, accepted |-> added[1]]
                     st1 == [st EXCEPT !.rq = got[2],
                                       !.servers[currentIndex + 1] = added[2],
                                       !.placements = Append(@, rec)]
                 IN IF added[1]
                    THEN [st1 EXCEPT !.nextServerIndex =
                                          (currentIndex + 1) % Len(st.servers),
                                     !.requestAssigned = TRUE]
                    ELSE ScanServers(st1, serverIndex, i + 1)
            ELSE ScanServers(st, serverIndex, i + 1)

\* mutant: the number of attempts is not limited
RECURSIVE DistributeLoop_unbounded(_, _, _)
DistributeLoop_unbounded(st, attempts, maxAttempts) ==
    IF isEmpty(st.rq.requestQueue) THEN st
    ELSE LET st1 == ScanServers([st EXCEPT !.requestAssigned = FALSE],
                                st.nextServerIndex, 0)
         IN IF ~st1.requestAssigned THEN st1
            ELSE DistributeLoop_unbounded(st1, attempts + 1, maxAttempts)

\* mutant: every scan starts at the first server
RECURSIVE DistributeLoop_fromStart(_, _, _)
DistributeLoop_fromStart(st, attempts, maxAttempts) ==
    IF ~(~isEmpty(st.rq.requestQueue) /\ attempts < maxAttempts) THEN st
    ELSE LET st1 == ScanServers([st EXCEPT !.requestAssigned = FALSE], 0, 0)
         IN IF ~st1.requestAssigned THEN st1
            ELSE DistributeLoop_fromStart(st1, attempts + 1, maxAttempts)

\* The while loop of distributeRequests.
RECURSIVE DistributeLoop(_, _, _)
DistributeLoop(st, attempts, maxAttempts) ==
    IF ~(~isEmpty(st.rq.requestQueue) /\ attempts < maxAttempts) THEN st
    ELSE LET st1 == ScanServers([st EXCEPT !.requestAssigned = FALSE],
                                st.nextServerIndex, 0)
         IN IF ~st1.requestAssigned THEN st1
            ELSE DistributeLoop(st1, attempts + 1, maxAttempts)

\* LoadBalancer::distributeRequests
distributeRequests(svs, rq, next) ==
    LET st0 == [servers |-> svs, rq |-> rq, nextServerIndex |-> next,
                requestAssigned |-> FALSE, placements |-> <<>>]
    IN IF isEmpty(rq.requestQueue) THEN st0
       ELSE DistributeLoop(st0, 0, Len(svs) * 2)

\* WebServer::getUtilization as a fraction <<numerator, denominator>> of percent
getUtilization(s) ==
    IF s.maxCapacity = 0 THEN <<0, 1>> ELSE <<s.currentLoad * 100, s.maxCapacity>>

RECURSIVE GCD(_, _)
GCD(a, b) == IF b = 0 THEN a ELSE GCD(b, a % b)

\* the sum of two fractions, in lowest terms
FracAdd(x, y) ==
    LET num == x[1] * y[2] + y[1] * x[2]
        den == x[2] * y[2]
        g == GCD(den, num)
    IN <<num \div g, den \div g>>

RECURSIVE TotalUtilization(_)
TotalUtilization(svs) ==
    IF svs = <<>> THEN <<0, 1>>
    ELSE IF Head(svs).isActive
         THEN FracAdd(getUtilization(Head(svs)), TotalUtilization(Tail(svs)))
         ELSE TotalUtilization(Tail(svs))

getActiveServerCount(svs) == Cardinality({i \in 1..Len(svs) : svs[i].isActive})

\* LoadBalancer::getSystemUtilization, percent as a fraction <<num, den>>
getSystemUtilization(svs) ==
    IF svs = <<>> THEN <<0, 1>>
    ELSE LET t == TotalUtilization(svs)
             activeServers == getActiveServerCount(svs)
         IN IF activeServers > 0 THEN <<t[1], t[2] * activeServers>> ELSE <<0, 1>>

\* RequestQueue::getUtilization, percent as a fraction <<num, den>>
getQueueUtilization(q, max) ==
    IF max = 0 THEN <<0, 1>> ELSE <<getSize(q) * 100, max>>

\* mutant: both measures have to be high
isOverloaded_both(svs, q, max) ==
    LET u == getSystemUtilization(svs)
        qu == getQueueUtilization(q, max)
    IN u[1] > 90 * u[2] /\ qu[1] > 80 * qu[2]

\* LoadBalancer::isOverloaded
isOverloaded(svs, q, max) ==
    LET u == getSystemUtilization(svs)
        qu == getQueueUtilization(q, max)
    IN u[1] > 90 * u[2] \/ qu[1] > 80 * qu[2]

\* mutant: a utilization equal to the threshold counts as above it
AboveThreshold_orEqual(u, thr) == u[1] >= thr * u[2]

\* avgUtilization > loadThreshold, with u in percent and the threshold in hundredths
AboveThreshold(u, thr) == u[1] > thr * u[2]

\* Thresholds (in hundredths) for which an average utilization equal to the
\* exact product compares as smaller in double arithmetic: the code compares
\* (totalUtilization / activeServers) / 100.0 with loadThreshold * 0.05, and
\* for these thresholds the rounded product is above the rounded average
\* (0.8 * 0.05 = 0.04000000000000001, 0.1 * 0.05 = 0.005000000000000001).
\* Away from equality the roundings do not change the comparison.
RoundsUp ==
    {5, 7, 10, 14, 19, 20, 23, 28, 38, 39, 40, 41, 43, 45, 46, 51, 53, 55, 56,
     75, 76, 77, 78, 79, 80, 81, 82, 86, 87, 90, 91, 92, 97}

\* avgUtilization < loadThreshold * 0.05
BelowLowWater(u, thr) ==
    IF thr \in RoundsUp THEN 20 * u[1] <= thr * u[2] ELSE 20 * u[1] < thr * u[2]

\* the first if of checkLoadBalancing: servers afterwards
scaleUp(svs, avgUtilization, queueSize, thr, max) ==
    IF (AboveThreshold(avgUtilization, thr) \/ queueSize > QueueBacklog)
       /\ Len(svs) < max
    THEN addServer(svs, max)[2] ELSE svs

\* mutant: the utilization is not looked at
scaleDown_anyLoad(svs, avgUtilization, queueSize, thr, min) ==
    IF queueSize = 0 /\ Len(svs) > min + 3
    THEN removeServer(svs, min)[2] ELSE svs

\* mutant: one more server is kept above the minimum
scaleDown_margin(svs, avgUtilization, queueSize, thr, min) ==
    IF BelowLowWater(avgUtilization, thr) /\ queueSize = 0 /\ Len(svs) > min + 4
    THEN removeServer(svs, min)[2] ELSE svs

\* the second if of checkLoadBalancing: servers afterwards
scaleDown(svs, avgUtilization, queueSize, thr, min) ==
    IF BelowLowWater(avgUtilization, thr) /\ queueSize = 0 /\ Len(svs) > min + 3
    THEN removeServer(svs, min)[2] ELSE svs

\* LoadBalancer::checkLoadBalancing: servers afterwards
checkLoadBalancing(svs, queueSize, thr, max, min) ==
    IF svs = <<>> THEN svs
    ELSE LET avgUtilization == getSystemUtilization(svs)
             grown == scaleUp(svs, avgUtilization, queueSize, thr, max)
         IN scaleDown(grown, avgUtilization, queueSize, thr, min)

\* The first loop of LoadBalancer::processCycle from server i (1-based) on:
\* <<totalCompleted, servers afterwards>>
RECURSIVE ProcessServers(_, _, _)
ProcessServers(svs, i, totalCompleted) ==
    IF i > Len(svs) THEN <<totalCompleted, svs>>
    ELSE IF svs[i].isActive
         THEN LET r == WebServer_processCycle(svs[i])
              IN ProcessServers([svs EXCEPT ![i] = r[2]], i + 1, totalCompleted + r[1])
         ELSE ProcessServers(svs, i + 1, totalCompleted)

\* ------------------------------------------------------- history helpers
QueueIDs(q) == {q[i].requestID : i \in 1..Len(q)}

HeldIDs(svs) == UNION {QueueIDs(svs[i].requestQueue) : i \in 1..Len(svs)}

RECURSIVE InFlight(_)
InFlight(svs) ==
    IF svs = <<>> THEN 0 ELSE Len(Head(svs).requestQueue) + InFlight(Tail(svs))

RECURSIVE SumLoad(_)
SumLoad(svs) == IF svs = <<>> THEN 0 ELSE Head(svs).currentLoad + SumLoad(Tail(svs))

Sign(n) == IF n > 0 THEN 1 ELSE IF n < 0 THEN -1 ELSE 0

NoOp == [op |-> "other", ok |-> FALSE, n |-> 0, ip |-> ""]

\* the process was killed inside a call
Crashed == [op |-> "crash", ok |-> FALSE, n |-> 0, ip |-> ""]

Op(name, ok, n, ip) == [op |-> name, ok |-> ok, n |-> n, ip |-> ip]

\* ghost bookkeeping after the servers and the queue changed
OrigAfter(svs, q) ==
    LET kept == HeldIDs(svs) \cup QueueIDs(q)
    IN [id \in IDs |-> IF id \in kept THEN orig[id] ELSE 0]

\* history of the scenario "one request submitted to an idle one-server
\* balancer, then cycles only": d is the request's processing time (0 when
\* the scenario is not running), rets the values the cycles returned since
Unarmed == [d |-> 0, rets |-> <<>>]

ScenarioLength == 4

\* --------------------------------------------------------------- Init
\* The driver generates requests with fresh ids; a profile fixes the client
\* addresses and processing times it draws from and how many it generates.
Blocking == [ips |-> IPs, blockable |-> IPs, durations |-> {1}, budget |-> MaxRequests]

Variety == [ips |-> {"a"}, blockable |-> {"a"}, durations |-> Durations,
            budget |-> MaxRequests]

Idle == [ips |-> {"a"}, blockable |-> {}, durations |-> {1}, budget |-> MaxRequests]

Burst == [ips |-> {"a"}, blockable |-> {}, durations |-> {MaxDuration},
          budget |-> BurstRequests]

Backlog == [ips |-> {"a"}, blockable |-> {}, durations |-> {MaxDuration},
            budget |-> BacklogRequests]

\* the requests offered to WebServers used on their own
Offered == [ips |-> {"a"}, blockable |-> {}, durations |-> Durations,
            budget |-> WorkerRequests]

\* the requests offered to a RequestQueue used on its own
Callers == [ips |-> IPs, blockable |-> IPs, durations |-> {1},
            budget |-> QueueRequests]

\* main's requests: those of initializeQueue and FloodExcess of
\* addRandomRequests, each with the longest processing time main generates
Flood == [ips |-> {"a"}, blockable |-> {}, durations |-> {LongestProcessingTime},
          budget |-> DefaultMaxSize + FloodExcess]

\* <<initialServers, maxServers, minServers, loadThreshold, driver>>: the
\* constructor's arguments and the driver that uses the balancer
Profiles ==
    { <<1, 1, 1, 80, Blocking>>,
      <<1, 2, 1, 50, Variety>>,
      <<MaxPool - 1, MaxPool, 0, 50, Idle>>,
      <<1, 2, 1, 80, Burst>> }

\* configurations for the scaling rules: growth by backlog alone (threshold
\* 1.0), a pool of five with minimum 1, the threshold 0.0, growth by
\* utilization (threshold 0.5)
ScaleProfiles ==
    { <<1, 2, 1, 100, Backlog>>,
      <<5, 5, 1, 80, Idle>>,
      <<MaxPool - 1, MaxPool, 0, 0, Idle>>,
      <<1, 2, 1, 50, Variety>> }

\* a LoadBalancer constructed with one of the configurations P; its queue is
\* the default-constructed RequestQueue member (capacity DefaultMaxSize)
InitFrom(P) ==
    /\ \E p \in P :
          /\ initialServers = p[1]
          /\ maxServers = p[2]
          /\ minServers = p[3]
          /\ loadThreshold = p[4]
          /\ driver = p[5]
    /\ servers = AddServers(<<>>, initialServers, maxServers)
    /\ maxSize = DefaultMaxSize
    /\ nextServerIndex = 0
    /\ totalRequestsProcessed = 0
    /\ totalProcessingTime = 0
    /\ requestQueue = <<>>
    /\ totalRequestsAdded = 0
    /\ totalRequestsRemoved = 0
    /\ blockedIPs = <<>>
    /\ nextRequestID = 1
    /\ accepted = 0
    /\ discarded = 0
    /\ orig = [id \in IDs |-> 0]
    /\ age = [id \in IDs |-> 0]
    /\ lastDone = {}
    /\ placements = <<>>
    /\ last = NoOp
    /\ blockedSet = {}
    /\ scenario = Unarmed
    /\ resized = 0

Init == InitFrom(Profiles)

InitScale == InitFrom(ScaleProfiles)

\* ------------------------------------------------------------- actions
\* The histories of the last cycle are cleared by every other operation.
lbConfig == <<maxServers, minServers, loadThreshold, initialServers, driver>>

\* LoadBalancer::getAverageProcessingTime as the fraction <<numerator,
\* denominator>>
getAverageProcessingTime(total, processed) ==
    IF processed = 0 THEN <<0, 1>> ELSE <<total, processed>>

\* LoadBalancer::addRequest with a request made by the driver
AddRequest(ip, procTime, prio) ==
    /\ Running
    /\ nextRequestID <= driver.budget
    /\ ip \in driver.ips
    /\ procTime \in driver.durations
    /\ LET r == Request(ip, prio, procTime, nextRequestID)
           res == RequestQueue_addRequest(TheQueue, r)
       IN /\ requestQueue' = res[2].requestQueue
          /\ maxSize' = res[2].maxSize
          /\ totalRequestsAdded' = res[2].totalRequestsAdded
          /\ totalRequestsRemoved' = res[2].totalRequestsRemoved
          /\ blockedIPs' = res[2].blockedIPs
          /\ accepted' = IF res[1] THEN accepted + 1 ELSE accepted
          /\ orig' = IF res[1] THEN [orig EXCEPT ![nextRequestID] = procTime] ELSE orig
          /\ last' = Op("addRequest", res[1], 0, ip)
          /\ resized' = resized
          /\ scenario' = IF res[1] /\ Len(servers) = 1 /\ InFlight(servers) = 0
                             /\ requestQueue = <<>>
                          THEN [d |-> procTime, rets |-> <<>>] ELSE Unarmed
    /\ nextRequestID' = nextRequestID + 1
    /\ lastDone' = {}
    /\ placements' = <<>>
    /\ UNCHANGED <<servers, nextServerIndex, totalRequestsProcessed, totalProcessingTime,
                   lbConfig, discarded, age, blockedSet>>

\* mutant: the requests are distributed before the servers are processed
ProcessCycle_distributeFirst ==
    LET d == distributeRequests(servers, TheQueue, nextServerIndex)
        p == ProcessServers(d.servers, 1, 0)
        c == checkLoadBalancing(p[2], getSize(d.rq.requestQueue),
                                loadThreshold, maxServers, minServers)
    IN /\ Running
       /\ servers' = c
       /\ nextServerIndex' = d.nextServerIndex
       /\ requestQueue' = d.rq.requestQueue
       /\ totalRequestsRemoved' = d.rq.totalRequestsRemoved
       /\ totalRequestsProcessed' = totalRequestsProcessed + p[1]
       /\ discarded' = discarded + (InFlight(p[2]) - InFlight(c))
       /\ lastDone' = {[requestID |-> id, orig |-> orig[id], age |-> age[id] + 1] :
                          id \in (HeldIDs(d.servers) \ HeldIDs(p[2])) \cap IDs}
       /\ age' = LET stays == HeldIDs(c)
                  IN [id \in IDs |-> IF id \in stays THEN age[id] + 1 ELSE 0]
       /\ orig' = OrigAfter(c, d.rq.requestQueue)
       /\ placements' = d.placements
       /\ last' = Op("processCycle", FALSE, p[1], "")
       /\ resized' = Sign(Len(c) - Len(servers))
       /\ scenario' = IF scenario.d > 0 /\ Len(scenario.rets) < ScenarioLength
                       THEN [scenario EXCEPT !.rets = Append(@, p[1])] ELSE Unarmed
       /\ UNCHANGED <<totalProcessingTime, lbConfig, maxSize, totalRequestsAdded,
                      blockedIPs, nextRequestID, accepted, blockedSet>>

\* LoadBalancer::processCycle
ProcessCycle ==
    LET p == ProcessServers(servers, 1, 0)
        d == distributeRequests(p[2], TheQueue, nextServerIndex)
        c == checkLoadBalancing(d.servers, getSize(d.rq.requestQueue),
                                loadThreshold, maxServers, minServers)
    IN /\ Running
       /\ servers' = c
       /\ nextServerIndex' = d.nextServerIndex
       /\ requestQueue' = d.rq.requestQueue
       /\ totalRequestsRemoved' = d.rq.totalRequestsRemoved
       /\ totalRequestsProcessed' = totalRequestsProcessed + p[1]
       /\ discarded' = discarded + (InFlight(d.servers) - InFlight(c))
       /\ lastDone' = {[requestID |-> id, orig |-> orig[id], age |-> age[id] + 1] :
                          id \in (HeldIDs(servers) \ HeldIDs(p[2])) \cap IDs}
       /\ age' = LET stays == HeldIDs(c) \cap HeldIDs(servers)
                  IN [id \in IDs |-> IF id \in stays THEN age[id] + 1 ELSE 0]
       /\ orig' = OrigAfter(c, d.rq.requestQueue)
       /\ placements' = d.placements
       /\ last' = Op("processCycle", FALSE, p[1], "")
       /\ resized' = Sign(Len(c) - Len(servers))
       /\ scenario' = IF scenario.d > 0 /\ Len(scenario.rets) < ScenarioLength
                       THEN [scenario EXCEPT !.rets = Append(@, p[1])] ELSE Unarmed
       /\ UNCHANGED <<totalProcessingTime, lbConfig, maxSize, totalRequestsAdded,
                      blockedIPs, nextRequestID, accepted, blockedSet>>

\* LoadBalancer::distributeRequests called on its own
DistributeRequests ==
    LET d == distributeRequests(servers, TheQueue, nextServerIndex)
    IN /\ Running
       /\ servers' = d.servers
       /\ nextServerIndex' = d.nextServerIndex
       /\ requestQueue' = d.rq.requestQueue
       /\ totalRequestsRemoved' = d.rq.totalRequestsRemoved
       /\ placements' = d.placements
       /\ lastDone' = {}
       /\ last' = NoOp
       /\ resized' = 0
       /\ scenario' = Unarmed
       /\ UNCHANGED blockedSet
       /\ UNCHANGED <<totalRequestsProcessed, totalProcessingTime, lbConfig, maxSize,
                      totalRequestsAdded, blockedIPs, nextRequestID, accepted,
                      discarded, orig, age>>

\* LoadBalancer::checkLoadBalancing called on its own
CheckLoadBalancing ==
    LET c == checkLoadBalancing(servers, getSize(requestQueue),
                                loadThreshold, maxServers, minServers)
    IN /\ Running
       /\ servers' = c
       /\ discarded' = discarded + (InFlight(servers) - InFlight(c))
       /\ orig' = OrigAfter(c, requestQueue)
       /\ age' = [id \in IDs |-> IF id \in HeldIDs(c) THEN age[id] ELSE 0]
       /\ lastDone' = {}
       /\ placements' = <<>>
       /\ last' = NoOp
       /\ resized' = 0
       /\ scenario' = Unarmed
       /\ UNCHANGED blockedSet
       /\ UNCHANGED <<nextServerIndex, totalRequestsProcessed, totalProcessingTime,
                      lbConfig, requestQueue, maxSize, totalRequestsAdded,
                      totalRequestsRemoved, blockedIPs, nextRequestID, accepted>>

\* LoadBalancer::addServer called on its own
AddServer ==
    LET r == addServer(servers, maxServers)
    IN /\ Running
       /\ servers' = r[2]
       /\ lastDone' = {}
       /\ placements' = <<>>
       /\ last' = NoOp
       /\ resized' = 0
       /\ scenario' = Unarmed
       /\ UNCHANGED blockedSet
       /\ UNCHANGED <<nextServerIndex, totalRequestsProcessed, totalProcessingTime,
                      lbConfig, requestQueue, maxSize, totalRequestsAdded,
                      totalRequestsRemoved, blockedIPs, nextRequestID, accepted,
                      discarded, orig, age>>

\* LoadBalancer::removeServer called on its own; when the call kills the
\* process nothing runs any more
RemoveServer ==
    LET r == removeServer(servers, minServers)
    IN /\ Running
       /\ servers' = r[2]
       /\ discarded' = discarded + (InFlight(servers) - InFlight(r[2]))
       /\ orig' = OrigAfter(r[2], requestQueue)
       /\ age' = [id \in IDs |-> IF id \in HeldIDs(r[2]) THEN age[id] ELSE 0]
       /\ lastDone' = {}
       /\ placements' = <<>>
       /\ last' = IF r[3] THEN Crashed ELSE NoOp
       /\ resized' = 0
       /\ scenario' = Unarmed
       /\ UNCHANGED blockedSet
       /\ UNCHANGED <<nextServerIndex, totalRequestsProcessed, totalProcessingTime,
                      lbConfig, requestQueue, maxSize, totalRequestsAdded,
                      totalRequestsRemoved, blockedIPs, nextRequestID, accepted>>

\* LoadBalancer::blockIP
BlockIP(ip) ==
    /\ Running
    /\ ip \in driver.blockable
    /\ blockedIPs' = RequestQueue_blockIP(blockedIPs, ip)
    /\ blockedSet' = blockedSet \cup {ip}
    /\ scenario' = Unarmed
    /\ lastDone' = {}
    /\ placements' = <<>>
    /\ last' = NoOp
    /\ resized' = 0
    /\ UNCHANGED <<servers, nextServerIndex, totalRequestsProcessed, totalProcessingTime,
                   lbConfig, requestQueue, maxSize, totalRequestsAdded,
                   totalRequestsRemoved, nextRequestID, accepted, discarded, orig, age>>

\* LoadBalancer::unblockIP
UnblockIP(ip) ==
    /\ Running
    /\ ip \in driver.blockable
    /\ blockedIPs' = RequestQueue_unblockIP(blockedIPs, ip)
    /\ blockedSet' = blockedSet \ {ip}
    /\ scenario' = Unarmed
    /\ lastDone' = {}
    /\ placements' = <<>>
    /\ last' = NoOp
    /\ resized' = 0
    /\ UNCHANGED <<servers, nextServerIndex, totalRequestsProcessed, totalProcessingTime,
                   lbConfig, requestQueue, maxSize, totalRequestsAdded,
                   totalRequestsRemoved, nextRequestID, accepted, discarded, orig, age>>

\* RequestQueue::getNextRequest called on the queue on its own
GetNextRequest ==
    LET r == getNextRequest(TheQueue)
    IN /\ requestQueue' = r[2].requestQueue
       /\ totalRequestsRemoved' = r[2].totalRequestsRemoved
       /\ totalRequestsAdded' = r[2].totalRequestsAdded
       /\ maxSize' = r[2].maxSize
       /\ blockedIPs' = r[2].blockedIPs
       /\ orig' = OrigAfter(servers, r[2].requestQueue)
       /\ last' = Op("getNextRequest", ~isEmpty(requestQueue), r[1].requestID,
                     r[1].clientIP)
       /\ resized' = 0
       /\ lastDone' = {}
       /\ placements' = <<>>
       /\ scenario' = Unarmed
       /\ UNCHANGED <<servers, nextServerIndex, totalRequestsProcessed,
                      totalProcessingTime, lbConfig, nextRequestID, accepted,
                      discarded, age, blockedSet>>

\* RequestQueue::clear called on the queue on its own: every request is
\* popped, the counters are left as they are
Clear ==
    /\ requestQueue' = <<>>
    /\ orig' = OrigAfter(servers, <<>>)
    /\ last' = Op("clear", FALSE, getSize(requestQueue), "")
    /\ resized' = 0
    /\ lastDone' = {}
    /\ placements' = <<>>
    /\ scenario' = Unarmed
    /\ UNCHANGED <<servers, nextServerIndex, totalRequestsProcessed,
                   totalProcessingTime, lbConfig, maxSize, totalRequestsAdded,
                   totalRequestsRemoved, blockedIPs, nextRequestID, accepted,
                   discarded, age, blockedSet>>

\* WebServer::addRequest called on server i (1-based) on its own
Accept(i, procTime) ==
    /\ nextRequestID <= WorkerRequests
    /\ i \in 1..Len(servers)
    /\ procTime \in driver.durations
    /\ LET r == Request("a", DefaultPriority, procTime, nextRequestID)
           res == WebServer_addRequest(servers[i], r)
       IN /\ servers' = [servers EXCEPT ![i] = res[2]]
          /\ orig' = IF res[1] THEN [orig EXCEPT ![nextRequestID] = procTime] ELSE orig
          /\ last' = Op("accept", res[1], i, "a")
          /\ resized' = 0
    /\ nextRequestID' = nextRequestID + 1
    /\ UNCHANGED <<nextServerIndex, totalRequestsProcessed, totalProcessingTime,
                   lbConfig, requestQueue, maxSize, totalRequestsAdded,
                   totalRequestsRemoved, blockedIPs, accepted, discarded, age,
                   lastDone, placements, blockedSet, scenario>>

\* WebServer::processCycle called on server i (1-based) on its own
Advance(i) ==
    /\ i \in 1..Len(servers)
    /\ LET res == WebServer_processCycle(servers[i])
           svs == [servers EXCEPT ![i] = res[2]]
       IN /\ servers' = svs
          /\ orig' = OrigAfter(svs, requestQueue)
          /\ last' = Op("advance", FALSE, res[1], "")
          /\ resized' = 0
    /\ UNCHANGED <<nextServerIndex, totalRequestsProcessed, totalProcessingTime,
                   lbConfig, requestQueue, maxSize, totalRequestsAdded,
                   totalRequestsRemoved, blockedIPs, nextRequestID, accepted,
                   discarded, age, lastDone, placements, blockedSet, scenario>>

\* WebServer::setIsActive called on server i (1-based)
SetIsActive(i, active) ==
    /\ i \in 1..Len(servers)
    /\ servers' = [servers EXCEPT ![i] = setIsActive(@, active)]
    /\ last' = NoOp
    /\ resized' = 0
    /\ UNCHANGED <<nextServerIndex, totalRequestsProcessed, totalProcessingTime,
                   lbConfig, requestQueue, maxSize, totalRequestsAdded,
                   totalRequestsRemoved, blockedIPs, nextRequestID, accepted,
                   discarded, orig, age, lastDone, placements, blockedSet, scenario>>

Next ==
    \/ \E ip \in IPs, procTime \in 1..MaxDuration :
          AddRequest(ip, procTime, DefaultPriority)
    \/ ProcessCycle
    \/ DistributeRequests
    \/ CheckLoadBalancing
    \/ AddServer
    \/ RemoveServer
    \/ \E ip \in IPs : BlockIP(ip)
    \/ \E ip \in IPs : UnblockIP(ip)

Spec == Init /\ [][Next]_vars

\* only the operations the driver uses: submissions, cycles and the blocklist
NextCore ==
    \/ \E ip \in IPs, procTime \in 1..MaxDuration :
          AddRequest(ip, procTime, DefaultPriority)
    \/ ProcessCycle
    \/ \E ip \in IPs : BlockIP(ip)
    \/ \E ip \in IPs : UnblockIP(ip)

SpecCore == Init /\ [][NextCore]_vars

\* the driver's operations on the configurations for the scaling rules
SpecScale == InitScale /\ [][NextCore]_vars

\* a pool with room to grow and to shrink and the threshold 0.1
FlapProfiles ==
    { <<MaxPool - 1, MaxPool, 0, 10, Variety>> }

InitFlap == InitFrom(FlapProfiles)

\* the driver's operations on that pool
SpecFlap == InitFlap /\ [][NextCore]_vars

\* the priorities the driver gives its requests
Priorities == {LowestPriority, HighestPriority}

\* the driver's operations with requests of either priority
NextPriority ==
    \/ \E ip \in IPs, procTime \in 1..MaxDuration, prio \in Priorities :
          AddRequest(ip, procTime, prio)
    \/ ProcessCycle
    \/ \E ip \in IPs : BlockIP(ip)
    \/ \E ip \in IPs : UnblockIP(ip)

\* one server with two client addresses, a pool that grows, a pool that can
\* shrink
PriorityProfiles ==
    { <<1, 1, 1, 80, Blocking>>,
      <<1, 2, 1, 50, Variety>>,
      <<MaxPool - 1, MaxPool, 0, 50, Idle>> }

InitPriority == InitFrom(PriorityProfiles)

SpecPriority == InitPriority /\ [][NextPriority]_vars

\* the constructor's arguments: any initial count from 0, maximum and minimum
\* below, at and above it
ConstructProfiles ==
    { <<n, mx, mn, 80, Idle>> :
         n \in 0..MaxInitial, mx \in (0 - MaxDeficit)..(MaxInitial + 1),
         mn \in 0..(MaxInitial + 1) }

\* the LoadBalancer after its member initialisers, before the constructor's
\* body has run
InitArguments ==
    /\ \E p \in ConstructProfiles :
          /\ initialServers = p[1]
          /\ maxServers = p[2]
          /\ minServers = p[3]
          /\ loadThreshold = p[4]
          /\ driver = p[5]
    /\ servers = <<>>
    /\ maxSize = DefaultMaxSize
    /\ nextServerIndex = 0
    /\ totalRequestsProcessed = 0
    /\ totalProcessingTime = 0
    /\ requestQueue = <<>>
    /\ totalRequestsAdded = 0
    /\ totalRequestsRemoved = 0
    /\ blockedIPs = <<>>
    /\ nextRequestID = 1
    /\ accepted = 0
    /\ discarded = 0
    /\ orig = [id \in IDs |-> 0]
    /\ age = [id \in IDs |-> 0]
    /\ lastDone = {}
    /\ placements = <<>>
    /\ last = Op("arguments", FALSE, 0, "")
    /\ blockedSet = {}
    /\ scenario = Unarmed
    /\ resized = 0

\* the body of the constructor
Construct ==
    /\ last.op = "arguments"
    /\ servers' = AddServers(<<>>, initialServers, maxServers)
    /\ last' = Op("LoadBalancer", FALSE, 0, "")
    /\ UNCHANGED <<nextServerIndex, totalRequestsProcessed, totalProcessingTime,
                   lbConfig, requestQueue, maxSize, totalRequestsAdded,
                   totalRequestsRemoved, blockedIPs, nextRequestID, accepted,
                   discarded, orig, age, lastDone, placements, blockedSet, scenario,
                   resized>>

\* construction, then submissions and cycles
NextConstruct ==
    \/ Construct
    \/ /\ last.op # "arguments"
       /\ \/ \E ip \in IPs, procTime \in 1..MaxDuration :
                AddRequest(ip, procTime, DefaultPriority)
          \/ ProcessCycle

SpecConstruct == InitArguments /\ [][NextConstruct]_vars

\* pools with the minimum at, below and above nothing: main's
\* LoadBalancer(1, 2, 1, 0.8), a pool that starts empty with the minimum -1,
\* and a pool of MaxPool - 1 servers with the minimum 0
PoolProfiles ==
    { <<1, 2, 1, 80, Variety>>,
      <<0, 1, 0 - MaxDeficit, 80, Idle>>,
      <<MaxPool - 1, MaxPool, 0, 50, Idle>> }

InitPool == InitFrom(PoolProfiles)

\* every public operation of the LoadBalancer on those pools
SpecPool == InitPool /\ [][Next]_vars

\* main with numServers = 10: LoadBalancer(10, 20, 1, 0.8)
FloodProfiles ==
    { <<10, 20, 1, 80, Flood>> }

InitFlood == InitFrom(FloodProfiles)

\* the requests initializeQueue offers: numServers * 100, or as many as it
\* takes to be refused once (the loop breaks at the first refusal)
PrefillOffers ==
    IF QueuePerServer * initialServers <= maxSize
    THEN QueuePerServer * initialServers ELSE maxSize + 1

\* main: initializeQueue submits its requests before the loop starts; every
\* iteration of the loop then submits at most one request (addRandomRequests)
\* and calls processCycle
NextFlood ==
    \/ /\ nextRequestID <= PrefillOffers
       /\ \E ip \in driver.ips, procTime \in driver.durations :
             AddRequest(ip, procTime, DefaultPriority)
    \/ /\ nextRequestID > PrefillOffers
       /\ last.op = "processCycle" \/ nextRequestID = PrefillOffers + 1
       /\ \E ip \in driver.ips, procTime \in driver.durations :
             AddRequest(ip, procTime, DefaultPriority)
    \/ /\ nextRequestID > PrefillOffers
       /\ ProcessCycle

SpecFlood == InitFlood /\ [][NextFlood]_vars

\* a RequestQueue constructed on its own, by RequestQueue(SmallMaxSize) or by
\* RequestQueue(); there is no LoadBalancer and no server
InitQueue ==
    /\ maxSize \in {SmallMaxSize, DefaultMaxSize}
    /\ driver = Callers
    /\ servers = <<>>
    /\ initialServers = 0 /\ maxServers = 0 /\ minServers = 0
    /\ loadThreshold = 80
    /\ nextServerIndex = 0
    /\ totalRequestsProcessed = 0
    /\ totalProcessingTime = 0
    /\ requestQueue = <<>>
    /\ totalRequestsAdded = 0
    /\ totalRequestsRemoved = 0
    /\ blockedIPs = <<>>
    /\ nextRequestID = 1
    /\ accepted = 0
    /\ discarded = 0
    /\ orig = [id \in IDs |-> 0]
    /\ age = [id \in IDs |-> 0]
    /\ lastDone = {}
    /\ placements = <<>>
    /\ last = NoOp
    /\ blockedSet = {}
    /\ scenario = Unarmed
    /\ resized = 0

\* the RequestQueue's public operations
NextQueue ==
    \/ \E ip \in IPs, procTime \in 1..MaxDuration :
          AddRequest(ip, procTime, DefaultPriority)
    \/ GetNextRequest
    \/ Clear
    \/ \E ip \in IPs : BlockIP(ip)
    \/ \E ip \in IPs : UnblockIP(ip)

SpecQueue == InitQueue /\ [][NextQueue]_vars

\* two WebServers of capacity WorkerCapacity used on their own
InitWorker ==
    /\ servers = <<WebServer(1, WorkerCapacity), WebServer(2, WorkerCapacity)>>
    /\ initialServers = 2 /\ maxServers = 2 /\ minServers = 2
    /\ loadThreshold = 80
    /\ maxSize = DefaultMaxSize
    /\ driver = Offered
    /\ nextServerIndex = 0
    /\ totalRequestsProcessed = 0
    /\ totalProcessingTime = 0
    /\ requestQueue = <<>>
    /\ totalRequestsAdded = 0
    /\ totalRequestsRemoved = 0
    /\ blockedIPs = <<>>
    /\ nextRequestID = 1
    /\ accepted = 0
    /\ discarded = 0
    /\ orig = [id \in IDs |-> 0]
    /\ age = [id \in IDs |-> 0]
    /\ lastDone = {}
    /\ placements = <<>>
    /\ last = NoOp
    /\ blockedSet = {}
    /\ scenario = Unarmed
    /\ resized = 0

NextWorker ==
    \/ \E i \in 1..2, procTime \in 1..MaxDuration : Accept(i, procTime)
    \/ \E i \in 1..2 : Advance(i)
    \/ \E i \in 1..2, active \in BOOLEAN : SetIsActive(i, active)

SpecWorker == InitWorker /\ [][NextWorker]_vars

\* ================================================================ claims
RECURSIVE Concat(_)
Concat(seqs) == IF seqs = <<>> THEN <<>> ELSE Head(seqs) \o Concat(Tail(seqs))

\* every request held anywhere: the queue, then each server's FIFO
AllHeld == requestQueue \o Concat([i \in 1..Len(servers) |-> servers[i].requestQueue])

HeldNow == QueueIDs(requestQueue) \cup HeldIDs(servers)

ServerFull(s) == s.currentLoad = s.maxCapacity

\* C1: every server's load is within [0, maxCapacity] and the queue's size
\* is within [0, maxSize], in every reachable state.
C1_Capacity ==
    /\ \A i \in 1..Len(servers) :
          0 <= servers[i].currentLoad /\ servers[i].currentLoad <= servers[i].maxCapacity
    /\ 0 <= getSize(requestQueue) /\ getSize(requestQueue) <= maxSize

\* the queue was filled to maxSize and refused the next request; cycles have
\* since filled every server of the pool, and the queue still holds more
\* than the pool has room for
C1_Witness ==
    /\ accepted = maxSize /\ nextRequestID > maxSize + 1
    /\ Len(servers) = maxServers
    /\ \A i \in 1..Len(servers) : ServerFull(servers[i])
    /\ getSize(requestQueue) > ServerCapacity * Len(servers)
    /\ last.op = "processCycle"

\* the queue holds maxSize requests and has just refused one more
C1_QueueFull ==
    /\ getSize(requestQueue) = maxSize
    /\ last.op = "addRequest" /\ ~last.ok

\* C2: a balancer constructed with minServers <= initialServers <= maxServers
\* keeps its pool size within [minServers, maxServers].
C2_PoolBounds ==
    (Running /\ minServers <= initialServers /\ initialServers <= maxServers)
        => (minServers <= Len(servers) /\ Len(servers) <= maxServers)

\* a cycle has left the pool grown to maxServers, with work still on it
C2_Witness ==
    /\ minServers <= initialServers /\ initialServers <= maxServers
    /\ last.op = "processCycle"
    /\ Len(servers) = maxServers /\ Len(servers) > initialServers
    /\ SumLoad(servers) > 0

\* C3: conservation: accepted submissions = queued + loads of the servers
\* + completed (the balancer's counter) + requests discarded with a server.
C3_Conservation ==
    accepted = getSize(requestQueue) + SumLoad(servers) + totalRequestsProcessed + discarded

\* requests completed, discarded and still in flight at once
C3_Witness ==
    /\ discarded > 0
    /\ totalRequestsProcessed > 0
    /\ SumLoad(servers) > 0

\* C4: exclusive ownership: no request id is held twice (in the queue and
\* the servers' FIFOs together), and an id that has left never comes back.
C4_ExclusiveOwnership ==
    /\ [](\A i, j \in 1..Len(AllHeld) :
              AllHeld[i].requestID = AllHeld[j].requestID => i = j)
    /\ [][\A id \in 1..(nextRequestID - 1) : id \notin HeldNow => id \notin HeldNow']_vars

\* requests in the queue and on a server after a dispatch, one already gone
C4_Witness ==
    /\ requestQueue # <<>>
    /\ placements # <<>>
    /\ InFlight(servers) > 0
    /\ totalRequestsProcessed > 0

\* C5: a request of duration D placed in cycle T is counted as completed in
\* cycle T + D exactly: whatever completes has age D, the cycle returns the
\* number of requests that left, and nothing older than its duration stays.
C5_CompletionTiming ==
    /\ \A r \in lastDone : r.age = r.orig
    /\ last.op = "processCycle" => last.n = Cardinality(lastDone)
    /\ \A i \in 1..Len(servers) : \A k \in 1..Len(servers[i].requestQueue) :
          LET id == servers[i].requestQueue[k].requestID
          IN servers[i].isActive /\ id \in IDs => age[id] < orig[id]

\* a long request completed on a server it shares with others
C5_Witness ==
    /\ \E r \in lastDone : r.orig = MaxDuration /\ r.age = MaxDuration
    /\ last.op = "processCycle" /\ last.n >= 1
    /\ InFlight(servers) > 0

\* C6 as stated: after a duration-3 request is submitted to an idle
\* one-server balancer, cycles 1 and 2 return 0, cycle 3 returns 1 and the
\* server's load is then 0.
C6_AsStated ==
    (scenario.d = 3 /\ Len(scenario.rets) >= 3)
        => /\ scenario.rets[1] = 0 /\ scenario.rets[2] = 0 /\ scenario.rets[3] = 1
           /\ Len(scenario.rets) = 3 => SumLoad(servers) = 0

\* C6 amended: cycles 1, 2 and 3 return 0 (the first cycle only places the
\* request), cycle 4 returns 1 and the server's load is then 0.
C6_Scenario ==
    scenario.d = 3
        => /\ \A k \in 1..Len(scenario.rets) : scenario.rets[k] = (IF k = 4 THEN 1 ELSE 0)
           /\ Len(scenario.rets) \in 1..3 => SumLoad(servers) = 1
           /\ Len(scenario.rets) = 4 => SumLoad(servers) = 0

C6_Witness ==
    /\ scenario.d = 3
    /\ Len(scenario.rets) = 4
    /\ last.op = "processCycle" /\ last.n = 1

AllIdle(svs) ==
    \A i \in 1..Len(svs) :
        svs[i].isActive /\ svs[i].currentLoad = 0 /\ svs[i].maxCapacity >= 1

\* C7: round-robin fairness: a distribution pass over N idle servers with
\* exactly N queued requests, from any cursor, empties the queue and leaves
\* exactly one request on every server.
C7_RoundRobinFairness ==
    [][(/\ Len(servers) >= 1
        /\ AllIdle(servers)
        /\ getSize(requestQueue) = Len(servers)
        /\ (DistributeRequests \/ ProcessCycle))
       => /\ requestQueue' = <<>>
          /\ \A i \in 1..Len(servers) :
                servers'[i].currentLoad = 1 /\ Len(servers'[i].requestQueue) = 1]_vars

\* such a pass has run on at least two servers, starting away from index 0
C7_Witness ==
    /\ Len(servers) >= 2
    /\ Len(placements) = Len(servers)
    /\ placements[1].index # 0
    /\ \A k \in 1..Len(placements) : placements[k].loadBefore = 0
    /\ \A i \in 1..Len(servers) : servers[i].currentLoad = 1
    /\ requestQueue = <<>>
    /\ lastDone = {}

\* C8: while an address is blocked, a submission from it returns false and
\* leaves the queue, its size and the admitted counter unchanged.
C8_Blocklist ==
    [][(last'.op = "addRequest" /\ nextRequestID' = nextRequestID + 1
        /\ last'.ip \in blockedSet)
       => /\ ~last'.ok
          /\ requestQueue' = requestQueue
          /\ totalRequestsAdded' = totalRequestsAdded
          /\ accepted' = accepted]_vars

\* a blocked address was refused although the queue had room, the other
\* address being served
C8_Witness ==
    /\ last.op = "addRequest" /\ ~last.ok
    /\ last.ip \in blockedSet
    /\ getSize(requestQueue) < maxSize
    /\ \E i \in 1..Len(requestQueue) : requestQueue[i].clientIP # last.ip
    /\ Cardinality(blockedSet) = 2

\* a blocked address was refused by a queue that was full as well (a
\* RequestQueue used on its own)
C8_FullAndBlocked ==
    /\ last.op = "addRequest" /\ ~last.ok
    /\ last.ip \in blockedSet
    /\ getSize(requestQueue) = maxSize

\* C9: every request taken from the queue by a distribution pass goes to a
\* server that was active with load < capacity, and is accepted: whatever
\* was dequeued is on a server, completed, or discarded with its server.
C9_NoFailedPlacement ==
    /\ \A k \in 1..Len(placements) :
          /\ placements[k].wasActive
          /\ placements[k].loadBefore < placements[k].capacity
          /\ placements[k].accepted
    /\ totalRequestsRemoved = InFlight(servers) + totalRequestsProcessed + discarded

\* a pass that filled a server and had to leave requests in the queue
C9_Witness ==
    /\ placements # <<>>
    /\ \E i \in 1..Len(servers) : ServerFull(servers[i])
    /\ requestQueue # <<>>

\* C10: with a non-empty pool, 0 <= nextServerIndex < pool size in every
\* state reached by submissions and cycles.
C10_CursorInRange ==
    Len(servers) > 0 => (0 <= nextServerIndex /\ nextServerIndex < Len(servers))

\* ------------------------------------------------- the scaling rules
\* the pool and the queue of a cycle after its distribution step
AfterDistribution ==
    distributeRequests(ProcessServers(servers, 1, 0)[2], TheQueue, nextServerIndex)

\* mean of load / capacity over the pool > threshold (thr in hundredths)
MeanAbove(svs, thr) == 100 * SumLoad(svs) > thr * ServerCapacity * Len(svs)

\* mean of load / capacity over the pool < threshold * 0.05
MeanBelowTwentieth(svs, thr) == 2000 * SumLoad(svs) < thr * ServerCapacity * Len(svs)

ScaleUpDue(svs, queueSize) ==
    /\ MeanAbove(svs, loadThreshold) \/ queueSize > QueueBacklog
    /\ Len(svs) < maxServers

ScaleDownDue(svs, queueSize) ==
    /\ MeanBelowTwentieth(svs, loadThreshold)
    /\ queueSize = 0
    /\ Len(svs) > minServers + 3

\* C11: in every cycle on a non-empty pool, with the mean utilization and
\* the queue size taken after the distribution step, exactly one fresh server
\* is appended if (mean > threshold or queue size > 10) and pool size <
\* maximum, and none is appended otherwise.
C11_ScaleUp ==
    [][(ProcessCycle /\ servers # <<>>)
       => LET d == AfterDistribution
              q == getSize(d.rq.requestQueue)
          IN IF ScaleUpDue(d.servers, q)
             THEN servers' = Append(d.servers,
                                    WebServer(Len(d.servers) + 1, ServerCapacity))
             ELSE Len(servers') <= Len(d.servers)]_vars

\* a cycle appended a server because of the backlog alone: the threshold is
\* 1.0 and more than ten requests are still queued
C11_Witness ==
    /\ last.op = "processCycle"
    /\ loadThreshold = 100
    /\ getSize(requestQueue) > QueueBacklog
    /\ Len(servers) = initialServers + 1
    /\ servers[Len(servers)].currentLoad = 0

\* C12: in every cycle exactly one server, the last, is removed if mean <
\* threshold * 0.05 and queue size = 0 and pool size > minimum + 3, and none
\* is removed otherwise; the pool is never reduced below minimum + 3.
C12_ScaleDown ==
    [][(ProcessCycle /\ servers # <<>>)
       => LET d == AfterDistribution
              q == getSize(d.rq.requestQueue)
          IN /\ IF ScaleDownDue(d.servers, q)
                THEN servers' = SubSeq(d.servers, 1, Len(d.servers) - 1)
                ELSE Len(servers') >= Len(d.servers)
             /\ Len(servers') < Len(d.servers) => Len(servers') >= minServers + 3]_vars

\* C13: for every threshold in [0, 1] a cycle never both appends and removes
\* a server, and the pool size after the cycle differs from the size before
\* by at most 1.
C13_OneChange ==
    [][(ProcessCycle /\ servers # <<>>)
       => LET d == AfterDistribution
              q == getSize(d.rq.requestQueue)
              grown == scaleUp(d.servers, getSystemUtilization(d.servers), q,
                               loadThreshold, maxServers)
          IN /\ ~(Len(grown) > Len(d.servers) /\ Len(servers') < Len(grown))
             /\ Len(servers') - Len(servers) \in {-1, 0, 1}]_vars

\* with the threshold 0.0 a cycle found load on the pool and appended a server
C13_Witness ==
    /\ last.op = "processCycle"
    /\ loadThreshold = 0
    /\ Len(servers) = initialServers + 1
    /\ InFlight(servers) > 0
    /\ requestQueue = <<>>

\* C14 as stated: a cycle on an idle pool with an empty queue removes exactly
\* one server while pool size > minimum + 3 and leaves the pool alone from
\* then on, whatever the threshold.
C14_AsStated ==
    [][(ProcessCycle /\ servers # <<>> /\ AllIdle(servers) /\ requestQueue = <<>>)
       => Len(servers') = IF Len(servers) > minServers + 3
                          THEN Len(servers) - 1 ELSE Len(servers)]_vars

\* C14: with a threshold above 0, a cycle on an idle pool with an empty queue
\* removes exactly one server while pool size > minimum + 3 and leaves the
\* pool alone once it is at minimum + 3 or less.
C14_IdleShrink ==
    [][(ProcessCycle /\ servers # <<>> /\ AllIdle(servers) /\ requestQueue = <<>>
        /\ loadThreshold > 0)
       => /\ Len(servers') = IF Len(servers) > minServers + 3
                             THEN Len(servers) - 1 ELSE Len(servers)
          /\ AllIdle(servers') /\ requestQueue' = <<>>]_vars

\* minimum 1, five idle servers, no submission: the pool has gone to four
C14_Witness ==
    /\ last.op = "processCycle"
    /\ minServers = 1 /\ initialServers = 5
    /\ nextRequestID = 1
    /\ Len(servers) = 4

\* C15: removeServer called with pool size <= minimum returns false and
\* changes nothing; otherwise it removes exactly the last server, whose
\* requests are discarded and go neither to the queue nor to another server,
\* and the other servers, the queue and the completed counter are unchanged.
C15_RemoveFrame ==
    [][RemoveServer
       => LET r == removeServer(servers, minServers)
              n == Len(servers)
          IN /\ Running'
             /\ r[1] = (n > minServers)
             /\ IF n <= minServers
                THEN servers' = servers /\ discarded' = discarded
                ELSE /\ servers' = SubSeq(servers, 1, n - 1)
                     /\ discarded' = discarded + Len(servers[n].requestQueue)
                     /\ QueueIDs(servers[n].requestQueue)
                           \cap (HeldIDs(servers') \cup QueueIDs(requestQueue')) = {}
             /\ requestQueue' = requestQueue
             /\ totalRequestsProcessed' = totalRequestsProcessed
             /\ totalRequestsAdded' = totalRequestsAdded
             /\ totalRequestsRemoved' = totalRequestsRemoved]_vars

\* the part of C15 that the code keeps: a call on a pool that is below or
\* at its minimum, or that holds a server, returns and has the effect of
\* C15; a call on an empty pool above its minimum does not return
C15_FrameWhenReturns ==
    [][RemoveServer
       => LET r == removeServer(servers, minServers)
              n == Len(servers)
          IN IF n > minServers /\ n = 0
             THEN ~Running'
             ELSE /\ Running'
                  /\ r[1] = (n > minServers)
                  /\ IF n <= minServers
                     THEN servers' = servers /\ discarded' = discarded
                     ELSE /\ servers' = SubSeq(servers, 1, n - 1)
                          /\ discarded' = discarded + Len(servers[n].requestQueue)
                          /\ QueueIDs(servers[n].requestQueue)
                                \cap (HeldIDs(servers')
                                         \cup QueueIDs(requestQueue')) = {}
                  /\ requestQueue' = requestQueue
                  /\ totalRequestsProcessed' = totalRequestsProcessed
                  /\ totalRequestsAdded' = totalRequestsAdded
                  /\ totalRequestsRemoved' = totalRequestsRemoved]_vars

\* removeServer was called on an empty pool whose minimum is negative
C15_EmptyPoolCall ==
    ~Running /\ servers = <<>> /\ minServers < 0

\* the second of two servers was removed with a request on it, while the
\* first server and the queue still hold theirs
C15_Witness ==
    /\ last = NoOp
    /\ minServers = 1 /\ maxServers = 2
    /\ Len(servers) = 1
    /\ discarded > 0
    /\ InFlight(servers) > 0
    /\ requestQueue # <<>>

\* C16: isOverloaded is true exactly when the system utilization is above
\* 90 percent or the queue utilization is above 80 percent.
C16_Overloaded ==
    isOverloaded(servers, requestQueue, maxSize)
        <=> \/ servers # <<>>
               /\ 100 * SumLoad(servers) > 90 * ServerCapacity * Len(servers)
            \/ 100 * getSize(requestQueue) > 80 * maxSize

\* the scenario of the claim: the pool is at its maximum, every server is
\* full (system utilization 100) and the queue is above 80 percent
C16_Witness ==
    /\ isOverloaded(servers, requestQueue, maxSize)
    /\ Len(servers) = maxServers
    /\ \A i \in 1..Len(servers) : ServerFull(servers[i])
    /\ 100 * getSize(requestQueue) > 80 * maxSize

\* overloaded by the queue alone: no server holds a request while the queue
\* is above 80 percent
C16_QueueAlone ==
    /\ isOverloaded(servers, requestQueue, maxSize)
    /\ SumLoad(servers) = 0
    /\ 100 * getSize(requestQueue) > 80 * maxSize

\* a call of processCycle would leave the servers and the queue as they are
CycleIsNoOp ==
    LET p == ProcessServers(servers, 1, 0)
        d == distributeRequests(p[2], TheQueue, nextServerIndex)
        c == checkLoadBalancing(d.servers, getSize(d.rq.requestQueue),
                                loadThreshold, maxServers, minServers)
    IN c = servers /\ d.rq.requestQueue = requestQueue

\* The hypothesis of C17, "processCycle is called infinitely often".  Nothing
\* in the code makes a caller go on (main's loop ends after simulationTime
\* cycles, whatever is left), so this is a condition on the behaviour and
\* no part of a specification.  A call that changes nothing is a stuttering
\* step, so infinitely many calls are infinitely many ProcessCycle steps or
\* infinitely many states in which the call changes neither the servers nor
\* the queue.
CalledInfinitelyOften == []<>CycleIsNoOp \/ []<><<ProcessCycle>>_vars

\* C17: with a server in the pool, in every behaviour in which processCycle
\* is called infinitely often every request that was admitted eventually
\* leaves the system, by completion or by discard, also while further
\* requests are submitted.
C17_EventuallyLeaves ==
    CalledInfinitelyOften
        => \A id \in SmallIDs : (id \in HeldNow) ~> (id \notin HeldNow)

\* a request that found the only server full and had to wait in the queue
\* has completed
C17_Witness ==
    /\ Len(servers) = 1
    /\ \E r \in lastDone : r.requestID > ServerCapacity
    /\ totalRequestsProcessed > ServerCapacity

\* C18: addRequest on a full queue returns false and leaves the contents and
\* both counters unchanged; getNextRequest on an empty queue leaves it empty
\* and does not count a removal; a successful addRequest appends the request
\* at the tail and counts one more added; a successful getNextRequest takes
\* the head and counts one more removed.
C18_QueueOperations ==
    [][/\ (last'.op = "addRequest" /\ nextRequestID' = nextRequestID + 1)
          => LET n == getSize(requestQueue)
             IN /\ n >= maxSize => ~last'.ok
                /\ ~last'.ok => /\ requestQueue' = requestQueue
                                /\ totalRequestsAdded' = totalRequestsAdded
                                /\ totalRequestsRemoved' = totalRequestsRemoved
                /\ last'.ok => /\ getSize(requestQueue') = n + 1
                               /\ SubSeq(requestQueue', 1, n) = requestQueue
                               /\ requestQueue'[n + 1].requestID = nextRequestID
                               /\ totalRequestsAdded' = totalRequestsAdded + 1
                               /\ totalRequestsRemoved' = totalRequestsRemoved
       /\ GetNextRequest
          => /\ totalRequestsAdded' = totalRequestsAdded
             /\ IF requestQueue = <<>>
                THEN /\ requestQueue' = <<>>
                     /\ totalRequestsRemoved' = totalRequestsRemoved
                ELSE /\ requestQueue' = Tail(requestQueue)
                     /\ last'.n = Head(requestQueue).requestID
                     /\ totalRequestsRemoved' = totalRequestsRemoved + 1]_vars

\* a request from an address that is not blocked was refused by the full
\* queue, after requests had been taken from it
C18_Witness ==
    /\ last.op = "addRequest" /\ ~last.ok
    /\ last.ip \notin blockedSet
    /\ getSize(requestQueue) = maxSize
    /\ totalRequestsRemoved > 0

\* the requests of a FIFO after one cycle, by the rule of the claim
Decremented(q) == [k \in 1..Len(q) |-> [q[k] EXCEPT !.processingTime = @ - 1]]

StillRunning(r) == r.processingTime > 0

\* C19: processCycle of an active server with a non-empty FIFO decrements
\* every request by exactly 1 once, removes those that reach 0 or less and
\* keeps the others in their order; it returns the number removed, and the
\* load goes down and the completed counter up by that number.
C19_WorkerCycle ==
    \A i \in 1..Len(servers) :
        LET s == servers[i]
            r == WebServer_processCycle(s)
            kept == SelectSeq(Decremented(s.requestQueue), StillRunning)
            removed == Len(s.requestQueue) - Len(kept)
        IN (s.isActive /\ s.requestQueue # <<>>)
           => /\ r[2].requestQueue = kept
              /\ r[1] = removed
              /\ r[2].currentLoad = s.currentLoad - removed
              /\ r[2].totalRequestsProcessed = s.totalRequestsProcessed + removed

\* a cycle completed the request that stood between two others, which both
\* went down by one and kept their order
C19_Witness ==
    /\ last.op = "processCycle"
    /\ \E i \in 1..Len(servers), d \in lastDone :
          LET q == servers[i].requestQueue
          IN /\ Len(q) = 2
             /\ q[1].requestID < d.requestID /\ d.requestID < q[2].requestID
             /\ q[1].processingTime = orig[q[1].requestID] - age[q[1].requestID]
             /\ q[2].processingTime = orig[q[2].requestID] - age[q[2].requestID]
             /\ age[q[2].requestID] > 0

\* sum of the processing times at submission of the requests of q that are
\* not among keptIDs
RECURSIVE SumOrigGone(_, _)
SumOrigGone(q, keptIDs) ==
    IF q = <<>> THEN 0
    ELSE (IF Head(q).requestID \in keptIDs THEN 0 ELSE orig[Head(q).requestID])
         + SumOrigGone(Tail(q), keptIDs)

\* C20: when a request completes, its server's totalProcessingTime goes up
\* by the processing time the request had when it was submitted.
C20_OriginalDuration ==
    [][ProcessCycle
       => \A i \in 1..Len(servers) :
             i <= Len(servers')
             => servers'[i].totalProcessingTime
                   = servers[i].totalProcessingTime
                     + SumOrigGone(servers[i].requestQueue,
                                   QueueIDs(servers'[i].requestQueue))]_vars

\* ------------------------------------------------- WebServers on their own
\* C21: in every state reached by addRequest, processCycle and setIsActive
\* calls a server's currentLoad is the length of its FIFO; addRequest
\* appends the request and adds 1 to the load only when the server is active
\* with load < capacity, and otherwise returns false and changes nothing.
C21_LoadIsLength ==
    /\ [](\A i \in 1..Len(servers) :
              servers[i].currentLoad = Len(servers[i].requestQueue))
    /\ [][\A i \in 1..Len(servers) :
            (\E procTime \in 1..MaxDuration : Accept(i, procTime))
            => LET s == servers[i]
               IN IF s.isActive /\ s.currentLoad < s.maxCapacity
                  THEN /\ last'.ok
                       /\ Len(servers'[i].requestQueue) = Len(s.requestQueue) + 1
                       /\ SubSeq(servers'[i].requestQueue, 1, Len(s.requestQueue))
                             = s.requestQueue
                       /\ servers'[i].requestQueue[Len(s.requestQueue) + 1].requestID
                             = nextRequestID
                       /\ servers'[i].currentLoad = s.currentLoad + 1
                  ELSE ~last'.ok /\ servers' = servers]_vars

\* an active server that is full has refused a request
C21_Witness ==
    /\ last.op = "accept" /\ ~last.ok
    /\ servers[last.n].isActive
    /\ ServerFull(servers[last.n])
    /\ \E k \in 1..WorkerCapacity : servers[last.n].requestQueue[k].processingTime > 1

RECURSIVE SumActiveLoad(_)
SumActiveLoad(svs) ==
    IF svs = <<>> THEN 0
    ELSE (IF Head(svs).isActive THEN Head(svs).currentLoad ELSE 0)
         + SumActiveLoad(Tail(svs))

\* C22: setIsActive leaves the FIFO, the load and the counters as they are;
\* an inactive server returns 0 from processCycle without touching a
\* request and accepts nothing; it does not count in the mean utilization,
\* which is 0 when no server is active.
C22_Inactive ==
    /\ [](LET u == getSystemUtilization(servers)
              active == {i \in 1..Len(servers) : servers[i].isActive}
          IN IF active = {} THEN u[1] = 0
             ELSE u[1] * WorkerCapacity * Cardinality(active)
                     = u[2] * 100 * SumActiveLoad(servers))
    /\ [][\A i \in 1..Len(servers) :
            /\ (\E active \in BOOLEAN : SetIsActive(i, active))
               => /\ servers'[i].requestQueue = servers[i].requestQueue
                  /\ servers'[i].currentLoad = servers[i].currentLoad
                  /\ servers'[i].totalRequestsProcessed
                        = servers[i].totalRequestsProcessed
                  /\ servers'[i].totalProcessingTime = servers[i].totalProcessingTime
                  /\ \A j \in 1..Len(servers) : j # i => servers'[j] = servers[j]
            /\ (Advance(i) /\ ~servers[i].isActive)
               => last'.n = 0 /\ servers' = servers
            /\ ((\E procTime \in 1..MaxDuration : Accept(i, procTime))
                /\ ~servers[i].isActive)
               => ~last'.ok /\ servers' = servers]_vars

\* an inactive server that holds a request part-way through and has room
\* has refused a request, while the other server is active and loaded
C22_Witness ==
    /\ last.op = "accept" /\ ~last.ok
    /\ ~servers[last.n].isActive
    /\ Len(servers[last.n].requestQueue) = 1
    /\ servers[last.n].requestQueue[1].processingTime
          < orig[servers[last.n].requestQueue[1].requestID]
    /\ \E j \in 1..Len(servers) : servers[j].isActive /\ servers[j].currentLoad > 0

\* ------------------------------------------------- the distribution pass
\* what the claim says of one pass that took the pool `before` and the queue
\* to the result d
PassWithinLimits(before, d) ==
    LET n == Len(d.placements)
        poolSize == Len(before)
        noneCanAccept == \A i \in 1..poolSize :
                            ~d.servers[i].isActive
                            \/ d.servers[i].currentLoad >= d.servers[i].maxCapacity
    IN /\ n <= 2 * poolSize
       /\ InFlight(d.servers) = InFlight(before) + n
       /\ d.rq.requestQueue = SubSeq(requestQueue, n + 1, Len(requestQueue))
       /\ \/ d.rq.requestQueue = <<>>
          \/ noneCanAccept
          \/ n = 2 * poolSize

\* C23: a distribution pass moves at most 2 x pool size requests from the
\* queue to servers; when it ends the queue is empty, or no server can
\* accept, or exactly 2 x pool size requests were placed; the requests left
\* in the queue keep their order.
C23_PassLimits ==
    [][/\ DistributeRequests
          => PassWithinLimits(servers,
                 distributeRequests(servers, TheQueue, nextServerIndex))
       /\ ProcessCycle
          => PassWithinLimits(ProcessServers(servers, 1, 0)[2], AfterDistribution)]_vars

\* a pass stopped after 2 x pool size placements although requests were
\* left and a server still had room
C23_Witness ==
    /\ placements # <<>>
    /\ Len(placements) = 2 * Len(servers)
    /\ requestQueue # <<>>
    /\ \E i \in 1..Len(servers) : canAcceptRequest(servers[i])

\* index (0-based) of the first server that can accept in the cyclic order
\* starting at cursor, -1 if there is none; loads[i + 1] is the load of
\* server i
FirstAccepting(loads, cursor) ==
    LET n == Len(loads)
        ks == {k \in 0..(n - 1) : loads[((cursor + k) % n) + 1] < ServerCapacity}
    IN IF n = 0 \/ ks = {} THEN -1
       ELSE (cursor + CHOOSE k \in ks : \A j \in ks : k <= j) % n

\* the cursor after the placements pl[k], pl[k + 1], ... if each of them
\* went where the claim says, -1 otherwise
RECURSIVE CursorAfter(_, _, _, _)
CursorAfter(loads, cursor, pl, k) ==
    IF k > Len(pl) THEN cursor
    ELSE IF pl[k].index # FirstAccepting(loads, cursor) THEN -1
    ELSE CursorAfter([loads EXCEPT ![pl[k].index + 1] = @ + 1],
                     (pl[k].index + 1) % Len(loads), pl, k + 1)

LoadsOf(svs) == [i \in 1..Len(svs) |-> svs[i].currentLoad]

\* C24: each placement goes to the first server that can accept in the
\* cyclic order starting at nextServerIndex, and after a placement on server
\* i nextServerIndex is (i + 1) mod pool size; nothing else changes
\* nextServerIndex, so the first scan of a cycle starts where the last
\* placement left it.
C24_Rotation ==
    [][/\ DistributeRequests
          => nextServerIndex' = CursorAfter(LoadsOf(servers), nextServerIndex,
                                            placements', 1)
       /\ ProcessCycle
          => nextServerIndex' = CursorAfter(LoadsOf(ProcessServers(servers, 1, 0)[2]),
                                            nextServerIndex, placements', 1)
       /\ nextServerIndex' # nextServerIndex
          => (DistributeRequests \/ ProcessCycle) /\ placements' # <<>>]_vars

\* the first placement of a cycle went to a server other than the first,
\* the cursor having been left there by an earlier pass
C24_Witness ==
    /\ last.op = "processCycle"
    /\ placements # <<>>
    /\ placements[1].index # 0
    /\ servers[1].currentLoad < ServerCapacity

\* ------------------------------------------------- the order within a cycle
Completing(r) == r.processingTime <= 1

\* number of requests on the servers that the next processing step completes
RECURSIVE CompletingCount(_)
CompletingCount(svs) ==
    IF svs = <<>> THEN 0
    ELSE Len(SelectSeq(Head(svs).requestQueue, Completing))
         + CompletingCount(Tail(svs))

\* C25: a cycle processes the servers, then distributes, then scales: (a)
\* when every server is full at the start and one of them completes a
\* request in this cycle, a queued request is placed in the same cycle; (b)
\* a request placed in this cycle still has its full processing time after
\* it; (c) a server added by this cycle ends it empty; and the value
\* returned counts the completions of the processing step only.
C25_StepOrder ==
    [][ProcessCycle
       => /\ ((\A i \in 1..Len(servers) : ServerFull(servers[i]))
              /\ CompletingCount(servers) > 0 /\ requestQueue # <<>>)
             => /\ placements' # <<>>
                /\ placements'[1].requestID = Head(requestQueue).requestID
          /\ \A k \in 1..Len(placements') :
                \A i \in 1..Len(servers') : \A j \in 1..Len(servers'[i].requestQueue) :
                   servers'[i].requestQueue[j].requestID = placements'[k].requestID
                   => servers'[i].requestQueue[j].processingTime
                         = orig[placements'[k].requestID]
          /\ Len(servers') > Len(servers)
             => /\ servers'[Len(servers')].requestQueue = <<>>
                /\ servers'[Len(servers')].currentLoad = 0
          /\ last'.n = CompletingCount(servers)]_vars

\* the only server was full at the start of the cycle, completed requests
\* and received queued ones in the same cycle
C25_Witness ==
    /\ last.op = "processCycle" /\ last.n >= 1
    /\ Len(servers) = 1
    /\ placements # <<>>
    /\ placements[1].loadBefore + last.n = ServerCapacity

\* C26: requests leave the queue in the order in which they were admitted
\* (request ids grow with admission): a pass takes a prefix of the queue in
\* order, so a request admitted later is never placed before one admitted
\* earlier, neither in an earlier cycle nor earlier in the same pass.
C26_FifoService ==
    /\ [](/\ \A j, k \in 1..Len(requestQueue) :
                j < k => requestQueue[j].requestID < requestQueue[k].requestID
          /\ \A a \in QueueIDs(requestQueue), b \in HeldIDs(servers) : b < a)
    /\ [][(DistributeRequests \/ ProcessCycle)
          => /\ Len(placements') <= Len(requestQueue)
             /\ \A k \in 1..Len(placements') :
                   placements'[k].requestID = requestQueue[k].requestID
             /\ requestQueue' = SubSeq(requestQueue, Len(placements') + 1,
                                       Len(requestQueue))]_vars

\* a pass placed two requests in the order of their admission and left a
\* later one in the queue
C26_Witness ==
    /\ Len(placements) >= 2
    /\ placements[1].requestID < placements[2].requestID
    /\ requestQueue # <<>>
    /\ placements[2].requestID < Head(requestQueue).requestID

\* ------------------------------------------------- blocklist and pool growth
BlockedNow == {blockedIPs[i] : i \in 1..Len(blockedIPs)}

QueueFrame ==
    /\ requestQueue' = requestQueue
    /\ totalRequestsAdded' = totalRequestsAdded
    /\ totalRequestsRemoved' = totalRequestsRemoved
    /\ maxSize' = maxSize

\* C27: blockIP and unblockIP are idempotent set operations: blocking a
\* blocked address or unblocking one that is not blocked changes nothing,
\* after unblockIP(a) the address a is not blocked however often it was
\* blocked, neither changes the queue or its counters, and a queued request
\* is dispatched whether or not its address has been blocked since.
C27_BlocklistSet ==
    [][/\ \A ip \in IPs :
            /\ BlockIP(ip)
               => /\ BlockedNow' = BlockedNow \cup {ip}
                  /\ ip \in BlockedNow => blockedIPs' = blockedIPs
                  /\ QueueFrame
            /\ UnblockIP(ip)
               => /\ BlockedNow' = BlockedNow \ {ip}
                  /\ ip \notin BlockedNow => blockedIPs' = blockedIPs
                  /\ QueueFrame
       /\ ((DistributeRequests \/ ProcessCycle) /\ requestQueue # <<>>
           /\ \E i \in 1..Len(servers) : servers[i].currentLoad < ServerCapacity - 1)
          => /\ placements' # <<>>
             /\ placements'[1].requestID = Head(requestQueue).requestID]_vars

\* a request whose address was blocked while it was queued has been placed
\* on a server
C27_Witness ==
    /\ placements # <<>>
    /\ \E i \in 1..Len(servers) : \E j \in 1..Len(servers[i].requestQueue) :
          /\ servers[i].requestQueue[j].requestID = placements[1].requestID
          /\ servers[i].requestQueue[j].clientIP \in BlockedNow
    /\ blockedSet = BlockedNow

\* C28: addServer with pool size >= maximum returns false and changes
\* nothing; otherwise it appends one active server with load 0 and id
\* (previous pool size + 1) and leaves the other servers, the queue and
\* nextServerIndex unchanged.  Hence the server at position i (0-based) has
\* id i + 1 and the ids in the pool are pairwise distinct.
C28_GrowPool ==
    /\ [](\A i \in 1..Len(servers) : servers[i].serverID = i)
    /\ [][AddServer
          => LET r == addServer(servers, maxServers)
                 n == Len(servers)
             IN /\ r[1] = (n < maxServers)
                /\ IF n >= maxServers THEN servers' = servers
                   ELSE /\ Len(servers') = n + 1
                        /\ SubSeq(servers', 1, n) = servers
                        /\ servers'[n + 1].serverID = n + 1
                        /\ servers'[n + 1].isActive
                        /\ servers'[n + 1].currentLoad = 0
                        /\ servers'[n + 1].requestQueue = <<>>
                /\ requestQueue' = requestQueue
                /\ nextServerIndex' = nextServerIndex]_vars

\* a second server was added by a direct call next to a server that holds
\* one request, with requests waiting in the queue
C28_Witness ==
    /\ last = NoOp
    /\ Len(servers) = 2 /\ maxServers = 2
    /\ servers[1].currentLoad = 1
    /\ servers[2].currentLoad = 0
    /\ requestQueue # <<>>

\* ------------------------------------------------------------ oscillation
\* C29: with a threshold in (0,1], no two consecutive processCycle calls,
\* with submissions only in between, change the pool size in opposite
\* directions: neither a growth followed by a shrink nor a shrink followed
\* by a growth.
C29_NoOscillation ==
    [][(ProcessCycle /\ loadThreshold > 0 /\ loadThreshold <= 100)
       => LET now == Sign(Len(servers') - Len(servers))
          IN /\ ~(resized = 1 /\ now = -1)
             /\ ~(resized = -1 /\ now = 1)]_vars

\* -------------------------------------------------------------- telemetry
\* sum of the processing times at submission of the completed items S
RECURSIVE SumOrig(_)
SumOrig(S) ==
    IF S = {} THEN 0
    ELSE LET x == CHOOSE y \in S : TRUE IN x.orig + SumOrig(S \ {x})

\* C30: every processCycle call adds its return value to
\* totalRequestsProcessed and the processing times of the requests it
\* completed to the LoadBalancer's totalProcessingTime, so that
\* getAverageProcessingTime is the mean processing time of the completed
\* requests (at least 1 once a request has completed), and 0 before.
C30_Telemetry ==
    /\ [][ProcessCycle
          => /\ totalRequestsProcessed' = totalRequestsProcessed + last'.n
             /\ totalProcessingTime' = totalProcessingTime + SumOrig(lastDone')]_vars
    /\ [](LET avg == getAverageProcessingTime(totalProcessingTime,
                                              totalRequestsProcessed)
          IN IF totalRequestsProcessed = 0 THEN avg[1] = 0
             ELSE avg[1] >= avg[2])

\* the part of C30 about the completed counter, which the code keeps
C30_CompletedCounter ==
    [][ProcessCycle
       => /\ totalRequestsProcessed' = totalRequestsProcessed + last'.n
          /\ last'.n = Cardinality(lastDone')]_vars

\* ---------------------------------------------------------- queue counters
\* C32: in every reachable state of the RequestQueue, totalRequestsAdded -
\* totalRequestsRemoved is the size of the queue.
C32_SizeIsDifference ==
    totalRequestsAdded - totalRequestsRemoved = getSize(requestQueue)

\* clear was called on a queue that held requests
C32_Cleared ==
    /\ last.op = "clear" /\ last.n > 0
    /\ totalRequestsAdded - totalRequestsRemoved = last.n
    /\ requestQueue = <<>>

\* The part of C32 that holds for the queue inside a LoadBalancer, which
\* never calls clear: totalRequestsAdded - totalRequestsRemoved is the
\* size of the queue; neither counter ever decreases; totalRequestsRemoved
\* is the number of requests placed on servers: it goes up by the number of
\* placements of each distribution pass and by nothing else, so it equals
\* the requests held by servers plus those completed plus those discarded
\* with a removed server.
C32_QueueCounters ==
    /\ [](/\ totalRequestsAdded - totalRequestsRemoved = getSize(requestQueue)
          /\ totalRequestsAdded = accepted
          /\ totalRequestsRemoved
                = InFlight(servers) + totalRequestsProcessed + discarded)
    /\ [][/\ totalRequestsAdded' >= totalRequestsAdded
          /\ totalRequestsRemoved' >= totalRequestsRemoved
          /\ totalRequestsRemoved' - totalRequestsRemoved
                = IF ProcessCycle \/ DistributeRequests
                  THEN Len(placements') ELSE 0]_vars

\* requests were admitted, placed and completed, some are held by a server
\* and some are still queued
C32_Witness ==
    /\ totalRequestsRemoved >= 2
    /\ totalRequestsProcessed > 0
    /\ InFlight(servers) > 0
    /\ requestQueue # <<>>

\* ------------------------------------------------------------ construction
Constructed == last.op = "LoadBalancer"

Smaller(a, b) == IF a <= b THEN a ELSE b

FreshPool(n) ==
    /\ Len(servers) = n
    /\ \A i \in 1..Len(servers) :
          /\ servers[i].serverID = i
          /\ servers[i].isActive
          /\ servers[i].currentLoad = 0
          /\ servers[i].requestQueue = <<>>
    /\ nextServerIndex = 0
    /\ totalRequestsProcessed = 0
    /\ totalProcessingTime = 0

\* C33 as stated: for every initialServers n >= 0, every maxServers and
\* every minServers the pool after construction has min(n, maxServers)
\* servers with ids 1..min(n, maxServers), all active and idle, the cursor
\* at 0 and both counters at 0.
C33_AsStated ==
    Constructed => FreshPool(Smaller(initialServers, maxServers))

\* C33 (amended): that holds when maxServers >= 0; with a negative maxServers
\* the pool is empty.  In both cases no server is added to reach minServers.
C33_Construction ==
    Constructed
    => /\ maxServers >= 0 => FreshPool(Smaller(initialServers, maxServers))
       /\ maxServers < 0 => FreshPool(0)

\* a pool capped by the maximum and left below the minimum
C33_Witness ==
    /\ Constructed
    /\ initialServers > maxServers
    /\ maxServers >= 2
    /\ Len(servers) = maxServers
    /\ minServers > maxServers

\* ---------------------------------------------------------------- priority
\* the same requests with their priorities replaced by one value
RECURSIVE Scrub(_)
Scrub(q) ==
    IF q = <<>> THEN <<>>
    ELSE <<[Head(q) EXCEPT !.priority = DefaultPriority]>> \o Scrub(Tail(q))

RECURSIVE ScrubServers(_)
ScrubServers(svs) ==
    IF svs = <<>> THEN <<>>
    ELSE <<[Head(svs) EXCEPT !.requestQueue = Scrub(@)]>> \o ScrubServers(Tail(svs))

ScrubQueue(rq) == [rq EXCEPT !.requestQueue = Scrub(@)]

\* C31: priority does not influence scheduling.  Every operation commutes
\* with replacing the priorities: applied to the state in which all
\* priorities are replaced by one value (and, for addRequest, to the request
\* with that priority) it returns the same value and gives the state that
\* the actual step gives, up to the priorities carried.  Two runs of the
\* same operations whose requests differ only in priority therefore agree,
\* step by step, on submit results, queue order, placements, completions
\* and pool sizes.
C31_PriorityIgnored ==
    [][/\ ProcessCycle
          => LET p == ProcessServers(ScrubServers(servers), 1, 0)
                 d == distributeRequests(p[2], ScrubQueue(TheQueue), nextServerIndex)
                 c == checkLoadBalancing(d.servers, getSize(d.rq.requestQueue),
                                         loadThreshold, maxServers, minServers)
             IN /\ ScrubServers(servers') = c
                /\ Scrub(requestQueue') = d.rq.requestQueue
                /\ nextServerIndex' = d.nextServerIndex
                /\ placements' = d.placements
                /\ last'.n = p[1]
                /\ Len(servers') = Len(c)
       /\ \A ip \in IPs, procTime \in 1..MaxDuration, prio \in Priorities :
             AddRequest(ip, procTime, prio)
             => LET r == Request(ip, DefaultPriority, procTime, nextRequestID)
                    res == RequestQueue_addRequest(ScrubQueue(TheQueue), r)
                IN /\ last'.ok = res[1]
                   /\ Scrub(requestQueue') = res[2].requestQueue
                   /\ totalRequestsAdded' = res[2].totalRequestsAdded
                   /\ servers' = servers]_vars

\* a request of the lowest priority was placed by the last cycle while one
\* of the highest priority, submitted after it, is still queued
C31_Witness ==
    /\ placements # <<>>
    /\ \E i \in 1..Len(servers) : \E j \in 1..Len(servers[i].requestQueue) :
          /\ servers[i].requestQueue[j].requestID = placements[1].requestID
          /\ servers[i].requestQueue[j].priority = LowestPriority
    /\ requestQueue # <<>>
    /\ requestQueue[1].priority = HighestPriority
    /\ last.op = "processCycle"

====
